---- MODULE Spec2Model ----
(***************************************************************************)
(* Model of examples/glamify_scraper_example.py:                           *)
(*   - AffiliateLinkGenerator (the affiliate-id table and generate_link)   *)
(*   - BeautyProductSpider.parse (a generator: one record per product      *)
(*     element, then at most one follow-up request)                        *)
(* Python strings are modelled as sequences of one-character strings, so   *)
(* that containment ('?' in url), concatenation and URL resolution are     *)
(* computed rather than assumed.                                           *)
(***************************************************************************)
EXTENDS Integers, Sequences, FiniteSets, TLC

VARIABLES affiliate_ids, platform, product_url, link, lpc, calls,
          pc, response, idx, emitted

vars == <<affiliate_ids, platform, product_url, link, lpc, calls,
          pc, response, idx, emitted>>

linkerVars == <<affiliate_ids, platform, product_url, link, lpc, calls>>

spiderVars == <<pc, response, idx, emitted>>

(***************************************************************************)
(* Bounds                                                                  *)
(***************************************************************************)
MaxUrlLen == 3

MaxProducts == 2

MaxCalls == 2

(***************************************************************************)
(* Strings                                                                 *)
(***************************************************************************)
EmptyStr == <<>>

RECURSIVE SeqsUpTo(_, _)
SeqsUpTo(S, n) ==
    IF n = 0 THEN {<<>>}
    ELSE LET shorter == SeqsUpTo(S, n - 1)
         IN  shorter \cup {Append(s, c) : s \in shorter, c \in S}

\* Python's  c in s  for a one-character c
Contains(s, c) == \E k \in 1..Len(s) : s[k] = c

\* Python's None, and a value that is a string
None == [isNone |-> TRUE]

Some(s) == [isNone |-> FALSE, str |-> s]

\* Python truthiness of an Optional[str]: None and '' are falsy
Truthy(v) == (~v.isNone) /\ v.str # EmptyStr

(***************************************************************************)
(* AffiliateLinkGenerator                                                  *)
(***************************************************************************)
SephoraId == <<"y", "o", "u", "r", "_", "s", "e", "p", "h", "o", "r", "a", "_", "a", "f", "f", "i", "l", "i", "a", "t", "e", "_", "i", "d">>

AmazonId == <<"y", "o", "u", "r", "_", "a", "m", "a", "z", "o", "n", "_", "a", "f", "f", "i", "l", "i", "a", "t", "e", "_", "i", "d">>

NamshiId == <<"y", "o", "u", "r", "_", "n", "a", "m", "s", "h", "i", "_", "a", "f", "f", "i", "l", "i", "a", "t", "e", "_", "i", "d">>

\* self.affiliate_ids as __init__ builds it
InitAffiliateIds ==
    [p \in {"sephora", "amazon", "namshi"} |->
        IF p = "sephora" THEN SephoraId
        ELSE IF p = "amazon" THEN AmazonId
        ELSE NamshiId]

AffiliateParam == <<"a", "f", "f", "i", "l", "i", "a", "t", "e", "=">>

TagParam == <<"?", "t", "a", "g", "=">>

separator_always_question(url) == <<"?">>

\* separator = '&' if '?' in product_url else '?'
separator(url) == IF Contains(url, "?") THEN <<"&">> ELSE <<"?">>

\* f"{product_url}{separator}affiliate={affiliate_id}"
sephora_link(url, affiliate_id) ==
    url \o separator(url) \o AffiliateParam \o affiliate_id

amazon_link_checks_query(url, affiliate_id) ==
    url \o separator(url) \o <<"t", "a", "g", "=">> \o affiliate_id

\* f"{product_url}?tag={affiliate_id}"
amazon_link(url, affiliate_id) == url \o TagParam \o affiliate_id

other_link_appends_id(url, affiliate_id) ==
    url \o separator(url) \o AffiliateParam \o affiliate_id

\* the final else branch: return product_url
other_link(url, affiliate_id) == url

\* the value generate_link returns, reading the table ids
generate_link(ids, plat, url) ==
    IF plat \notin DOMAIN ids THEN url
    ELSE LET affiliate_id == ids[plat]
         IN  IF plat = "sephora" THEN sephora_link(url, affiliate_id)
             ELSE IF plat = "amazon" THEN amazon_link(url, affiliate_id)
             ELSE other_link(url, affiliate_id)

table_after_call_inserts_key(ids, plat) ==
    IF plat \in DOMAIN ids THEN ids
    ELSE [p \in DOMAIN ids \cup {plat} |->
             IF p \in DOMAIN ids THEN ids[p] ELSE EmptyStr]

\* the table after a generate_link call: the method only reads it
table_after_call(ids, plat) == ids

UrlChars == {"a", "/", "?"}

SephoraUrl == <<"h", "t", "t", "p", "s", ":", "/", "/", "s", "e", "p", "h", "o", "r", "a", ".", "c", "o", "m", "/", "p", "/", "1">>

SephoraQueryUrl == <<"h", "t", "t", "p", "s", ":", "/", "/", "s", "e", "p", "h", "o", "r", "a", ".", "c", "o", "m", "/", "p", "/", "1", "?", "c", "o", "l", "o", "r", "=", "r", "e", "d">>

AmazonUrl == <<"h", "t", "t", "p", "s", ":", "/", "/", "a", "m", "a", "z", "o", "n", ".", "a", "e", "/", "p", "/", "1">>

NamshiUrl == <<"h", "t", "t", "p", "s", ":", "/", "/", "n", "a", "m", "s", "h", "i", ".", "c", "o", "m", "/", "p", "/", "1">>

UnknownUrl == <<"h", "t", "t", "p", "s", ":", "/", "/", "x", ".", "c", "o", "m", "/", "p", "/", "1">>

\* the product_url arguments tried: every short string over UrlChars, and
\* the URLs of the documented examples
ProductUrls ==
    SeqsUpTo(UrlChars, MaxUrlLen)
        \cup {SephoraUrl, SephoraQueryUrl, AmazonUrl, NamshiUrl, UnknownUrl}

\* the platform arguments tried: the three table keys and two that are not
Platforms == {"sephora", "amazon", "namshi", "unknown", "Sephora"}

LinkerInit ==
    /\ affiliate_ids = InitAffiliateIds
    /\ platform = "sephora"
    /\ product_url = EmptyStr
    /\ link = EmptyStr
    /\ lpc = "constructed"
    /\ calls = 0

\* one call generator.generate_link(plat, url)
GenerateLink(plat, url) ==
    /\ calls' = calls + 1
    /\ platform' = plat
    /\ product_url' = url
    /\ link' = generate_link(affiliate_ids, plat, url)
    /\ affiliate_ids' = table_after_call(affiliate_ids, plat)
    /\ lpc' = "returned"
    /\ UNCHANGED spiderVars

(***************************************************************************)
(* URL resolution: response.urljoin(url) is urllib.parse.urljoin(base,     *)
(* url). URLs here have no fragment ('#') and no params (';').             *)
(***************************************************************************)
Http == <<"h", "t", "t", "p">>

Https == <<"h", "t", "t", "p", "s">>

Alpha == {"a", "b", "c", "d", "e", "f", "g", "h", "i", "j", "k", "l", "m",
          "n", "o", "p", "q", "r", "s", "t", "u", "v", "w", "x", "y", "z"}

SchemeChars == Alpha \cup {"0", "1", "2", "3", "4", "5", "6", "7", "8", "9",
                           "+", "-", "."}

\* the schemes of uses_relative and uses_netloc that occur here
UsesRelative == {EmptyStr, Http, Https}

UsesNetloc == {EmptyStr, Http, Https}

\* least k with s[k] in C, or 0
FirstOf(s, C) ==
    IF \E k \in 1..Len(s) : s[k] \in C
    THEN CHOOSE k \in 1..Len(s) : s[k] \in C /\ \A j \in 1..(k - 1) : s[j] \notin C
    ELSE 0

From(s, k) == SubSeq(s, k, Len(s))

\* s.split(c): the pieces of s between the occurrences of c
Split(s, c) ==
    LET seps == {k \in 1..Len(s) : s[k] = c}
        n == Cardinality(seps)
        pos(i) == CHOOSE k \in seps : Cardinality({j \in seps : j < k}) = i - 1
    IN  [i \in 1..(n + 1) |->
            SubSeq(s, IF i = 1 THEN 1 ELSE pos(i - 1) + 1,
                      IF i = n + 1 THEN Len(s) ELSE pos(i) - 1)]

\* c.join(parts)
Join(parts, c) ==
    LET joined[k \in 0..Len(parts)] ==
            IF k = 0 THEN EmptyStr
            ELSE IF k = 1 THEN parts[1]
            ELSE joined[k - 1] \o <<c>> \o parts[k]
    IN  joined[Len(parts)]

\* urlsplit, last step: path and query of what follows the netloc
SplitQuery(scheme, netloc, rest) ==
    LET q == FirstOf(rest, {"?"})
    IN  [scheme |-> scheme,
         netloc |-> netloc,
         path |-> IF q = 0 THEN rest ELSE SubSeq(rest, 1, q - 1),
         query |-> IF q = 0 THEN EmptyStr ELSE From(rest, q + 1)]

\* urlsplit, _splitnetloc: the netloc runs up to the first '/' or '?'
SplitNetloc(scheme, after) ==
    LET delim == FirstOf(after, {"/", "?"})
    IN  SplitQuery(scheme,
                   IF delim = 0 THEN after ELSE SubSeq(after, 1, delim - 1),
                   IF delim = 0 THEN EmptyStr ELSE From(after, delim))

\* urlsplit, after the scheme:  if url[:2] == '//'
SplitRest(scheme, rest) ==
    IF Len(rest) >= 2 /\ rest[1] = "/" /\ rest[2] = "/"
    THEN SplitNetloc(scheme, From(rest, 3))
    ELSE SplitQuery(scheme, EmptyStr, rest)

\* urlsplit: the index of the ':' that ends url's scheme, 0 if it has none
SchemeEnd(url) ==
    LET i == FirstOf(url, {":"})
    IN  IF /\ i > 1
           /\ url[1] \in Alpha
           /\ \A k \in 1..(i - 1) : url[k] \in SchemeChars
        THEN i ELSE 0

\* urlsplit(url, scheme): scheme, netloc, path and query of url
urlsplit(url, default_scheme) ==
    SplitRest(IF SchemeEnd(url) = 0 THEN default_scheme
              ELSE SubSeq(url, 1, SchemeEnd(url) - 1),
              From(url, SchemeEnd(url) + 1))

\* urlunsplit of scheme, netloc, path and query
urlunsplit(scheme, netloc, path, query) ==
    LET rooted == IF path # EmptyStr /\ path[1] # "/" THEN <<"/">> \o path ELSE path
        u1 == IF netloc # EmptyStr
                  \/ (scheme # EmptyStr /\ scheme \in UsesNetloc
                        /\ ~(Len(path) >= 2 /\ path[1] = "/" /\ path[2] = "/"))
              THEN <<"/", "/">> \o netloc \o rooted
              ELSE path
        u2 == IF scheme # EmptyStr THEN scheme \o <<":">> \o u1 ELSE u1
    IN  IF query # EmptyStr THEN u2 \o <<"?">> \o query ELSE u2

\* segments[1:-1] = filter(None, segments[1:-1])
DropEmptyMiddle(segments) ==
    IF Len(segments) <= 2 THEN segments
    ELSE <<segments[1]>>
           \o SelectSeq(SubSeq(segments, 2, Len(segments) - 1),
                        LAMBDA seg : seg # EmptyStr)
           \o <<segments[Len(segments)]>>

\* one iteration of the loop that removes '.' and '..' segments
ResolveStep(resolved, seg) ==
    IF seg = <<".", ".">>
    THEN IF resolved = <<>> THEN resolved
         ELSE SubSeq(resolved, 1, Len(resolved) - 1)
    ELSE IF seg = <<".">> THEN resolved
    ELSE Append(resolved, seg)

\* resolved_path after the loop over segments
ResolveSegments(segments) ==
    LET resolved[k \in 0..Len(segments)] ==
            IF k = 0 THEN <<>>
            ELSE CHOOSE out \in {ResolveStep(prev, segments[k]) :
                                    prev \in {resolved[k - 1]}} : TRUE
    IN  resolved[Len(segments)]

\* base_parts: the base path's segments without a non-empty last one
BaseParts(parts) ==
    IF parts[Len(parts)] # EmptyStr THEN SubSeq(parts, 1, Len(parts) - 1)
    ELSE parts

\* segments: those of an absolute path, else base_parts + those of path
Segments(bpath, path) ==
    IF path[1] = "/" THEN Split(path, "/")
    ELSE DropEmptyMiddle(BaseParts(Split(bpath, "/")) \o Split(path, "/"))

\* resolved_path, with '' appended when the last segment is '.' or '..'
ResolvedPath(segments) ==
    IF segments[Len(segments)] \in {<<".">>, <<".", ".">>}
    THEN Append(ResolveSegments(segments), EmptyStr)
    ELSE ResolveSegments(segments)

\* '/'.join(resolved_path) or '/'
PathString(resolved) ==
    IF Join(resolved, "/") = EmptyStr THEN <<"/">> ELSE Join(resolved, "/")

\* urljoin once base and url are split into b and u
JoinSplit(url, b, u) ==
    IF u.scheme # b.scheme \/ u.scheme \notin UsesRelative THEN url
    ELSE IF u.scheme \in UsesNetloc /\ u.netloc # EmptyStr
    THEN urlunsplit(u.scheme, u.netloc, u.path, u.query)
    ELSE IF u.path = EmptyStr
    THEN urlunsplit(u.scheme, b.netloc, b.path,
                    IF u.query # EmptyStr THEN u.query ELSE b.query)
    ELSE urlunsplit(u.scheme, b.netloc,
                    PathString(ResolvedPath(Segments(b.path, u.path))), u.query)

\* urljoin once base is split into b: url is split with b's scheme
JoinWithBase(url, b) == JoinSplit(url, b, urlsplit(url, b.scheme))

urljoin_concatenates(base, url) == base \o url

\* urljoin(base, url) for a non-empty base and a non-empty url
urljoin_str(base, url) == JoinWithBase(url, urlsplit(base, EmptyStr))

urljoin_none_is_none(base, v) ==
    IF v.isNone THEN None
    ELSE IF v.str = EmptyStr THEN Some(base)
    ELSE Some(urljoin_str(base, v.str))

\* response.urljoin(v) for v a string or None:  if not url: return base
urljoin(base, v) ==
    IF ~Truthy(v) THEN Some(base) ELSE Some(urljoin_str(base, v.str))

(***************************************************************************)
(* BeautyProductSpider                                                     *)
(***************************************************************************)
Fields == {"name", "price", "rating", "image_url", "description", "brand",
           "category", "url"}

\* SelectorList.get(): the first match, or None when nothing matched
get(matches) == IF matches = <<>> THEN None ELSE Some(Head(matches))

\* the dict parse yields for one product element; element[f] is the list
\* of matches of field f's selector inside the element, in document order
record(base, element) ==
    [f \in Fields |->
        IF f = "url" THEN urljoin(base, get(element[f])) ELSE get(element[f])]

\* response.follow(next_page, self.parse)
follow(base, url) ==
    [kind |-> "request", url |-> urljoin(base, Some(url)).str, callback |-> "parse"]

\* response.css('.next-page::attr(href)'): the href values of the
\* pagination elements that have an href attribute, in document order
attr_href(elements) ==
    LET withAttr == SelectSeq(elements, LAMBDA v : ~v.isNone)
    IN  [k \in 1..Len(withAttr) |-> withAttr[k].str]

next_page_any_element(resp) ==
    IF resp.next_page = <<>> THEN None
    ELSE IF Head(resp.next_page).isNone THEN Some(EmptyStr)
    ELSE Some(Head(resp.next_page).str)

\* next_page = response.css('.next-page::attr(href)').get()
next_page(resp) == get(attr_href(resp.next_page))

StartUrl == <<"h", "t", "t", "p", "s", ":", "/", "/", "e", "x", "a", "m", "p", "l", "e", "-", "b", "e", "a", "u", "t", "y", "-", "s", "i", "t", "e", ".", "c", "o", "m", "/", "p", "r", "o", "d", "u", "c", "t", "s">>

ListingUrl == <<"h", "t", "t", "p", "s", ":", "/", "/", "s", "h", "o", "p", ".", "e", "x", "a", "m", "p", "l", "e", "/", "c", "/", "l", "i", "s", "t", "?", "p", "=", "1">>

ProductHref == <<"/", "p", "/", "1">>

RelativeHref == <<"i", "t", "e", "m">>

Page2 == <<"/", "p", "a", "g", "e", "/", "2">>

Page3 == <<"/", "p", "a", "g", "e", "/", "3">>

RelativePage == <<"p", "a", "g", "e", "2">>

QueryPage == <<"?", "p", "a", "g", "e", "=", "2">>

DotPage == <<"/", "a", "/", ".", ".", "/", "p", "a", "g", "e", "/", "2">>

AbsolutePage == <<"h", "t", "t", "p", "s", ":", "/", "/", "e", "x", "a", "m", "p", "l", "e", "-", "b", "e", "a", "u", "t", "y", "-", "s", "i", "t", "e", ".", "c", "o", "m", "/", "p", "a", "g", "e", "/", "3">>

NetworkPathPage == <<"/", "/", "c", "d", "n", ".", "e", "x", "a", "m", "p", "l", "e", "/", "p", "a", "g", "e", "/", "2">>

\* what each field's selector finds in a complete product element
FullElement ==
    [f \in Fields |->
        CASE f = "name" -> << <<"L", "i", "p">> >>
          [] f = "price" -> << <<"9">> >>
          [] f = "rating" -> << <<"4">> >>
          [] f = "image_url" -> << <<"/", "i", ".", "p", "n", "g">> >>
          [] f = "description" -> << <<"r", "e", "d">> >>
          [] f = "brand" -> << <<"G", "l", "o">> >>
          [] f = "category" -> << <<"l", "i", "p", "s">> >>
          [] OTHER -> << ProductHref >>]

\* the element with the sub-elements of the fields in missing removed
Without(element, missing) ==
    [f \in Fields |-> IF f \in missing THEN <<>> ELSE element[f]]

\* the product elements tried: complete, one sub-element missing (each of
\* the eight), all missing, a relative and an empty product link, and two
\* name matches
ProductElements ==
    {Without(FullElement, {})}
        \cup {Without(FullElement, {f}) : f \in Fields}
        \cup {Without(FullElement, Fields)}
        \cup {[FullElement EXCEPT !["url"] = << RelativeHref >>],
              [FullElement EXCEPT !["url"] = << EmptyStr >>],
              [FullElement EXCEPT !["name"] = << <<"B", "a", "l", "m">>, <<"L", "i", "p">> >>]}

\* the pagination elements tried, each given by its href attribute (None:
\* the element has no href): none, one without href, one with an empty
\* href, one with each kind of reference, and pairs
NextPageElements ==
    {<<>>,
     <<None>>,
     <<Some(EmptyStr)>>,
     <<Some(Page2)>>,
     <<Some(RelativePage)>>,
     <<Some(QueryPage)>>,
     <<Some(DotPage)>>,
     <<Some(AbsolutePage)>>,
     <<Some(NetworkPathPage)>>,
     <<None, Some(Page2)>>,
     <<Some(EmptyStr), Some(Page2)>>,
     <<Some(Page2), Some(Page3)>>}

BaseUrls == {StartUrl, ListingUrl}

\* the pages handed to parse; products are the matches of '.product-item'
Responses ==
    {[base |-> b, products |-> ps, next_page |-> n] :
        b \in BaseUrls,
        ps \in SeqsUpTo(ProductElements, MaxProducts),
        n \in NextPageElements}

SpiderInit ==
    /\ pc = "idle"
    /\ response = [base |-> StartUrl, products |-> <<>>, next_page |-> <<>>]
    /\ idx = 1
    /\ emitted = <<>>

Init == LinkerInit /\ SpiderInit

\* the engine calls parse(response); products = response.css('.product-item')
Parse(resp) ==
    /\ response' = resp
    /\ idx' = 1
    /\ emitted' = <<>>
    /\ pc' = "loop"
    /\ UNCHANGED linkerVars

YieldRecord_from_last ==
    /\ pc = "loop"
    /\ idx <= Len(response.products)
    /\ emitted' = Append(emitted,
                     [kind |-> "item",
                      fields |-> record(response.base,
                          response.products[Len(response.products) - idx + 1])])
    /\ idx' = idx + 1
    /\ UNCHANGED <<pc, response>>
    /\ UNCHANGED linkerVars

\* one iteration of  for product in products: yield {...}
YieldRecord ==
    /\ pc = "loop"
    /\ idx <= Len(response.products)
    /\ emitted' = Append(emitted,
                     [kind |-> "item",
                      fields |-> record(response.base, response.products[idx])])
    /\ idx' = idx + 1
    /\ UNCHANGED <<pc, response>>
    /\ UNCHANGED linkerVars

\* the loop is over and next_page is truthy: yield response.follow(...)
YieldFollow ==
    /\ pc = "loop"
    /\ idx > Len(response.products)
    /\ Truthy(next_page(response))
    /\ emitted' = Append(emitted, follow(response.base, next_page(response).str))
    /\ pc' = "followed"
    /\ UNCHANGED <<response, idx>>
    /\ UNCHANGED linkerVars

\* the loop is over and next_page is None or '': the generator ends
ReturnWithoutFollow ==
    /\ pc = "loop"
    /\ idx > Len(response.products)
    /\ ~Truthy(next_page(response))
    /\ pc' = "done"
    /\ UNCHANGED <<response, idx, emitted>>
    /\ UNCHANGED linkerVars

ReturnAfterFollow_parses_next_page ==
    /\ pc = "followed"
    /\ pc' = "loop"
    /\ idx' = 1
    /\ response' = [response EXCEPT !.base = emitted[Len(emitted)].url,
                                     !.next_page = <<>>]
    /\ UNCHANGED emitted
    /\ UNCHANGED linkerVars

\* resumed after the request was yielded: the generator ends
ReturnAfterFollow ==
    /\ pc = "followed"
    /\ pc' = "done"
    /\ UNCHANGED <<response, idx, emitted>>
    /\ UNCHANGED linkerVars

\* parse is invoked once per response; the model follows one invocation
CallParse == pc = "idle" /\ \E resp \in Responses : Parse(resp)

CallGenerateLink ==
    /\ calls < MaxCalls
    /\ \E plat \in Platforms, url \in ProductUrls : GenerateLink(plat, url)

LinkerNext == CallGenerateLink

SpiderNext ==
    \/ CallParse
    \/ YieldRecord
    \/ YieldFollow
    \/ ReturnWithoutFollow
    \/ ReturnAfterFollow

Next == LinkerNext \/ SpiderNext

\* the two components share nothing; each is also checked on its own
LinkerSpec == Init /\ [][LinkerNext]_vars

SpiderSpec == Init /\ [][SpiderNext]_vars

Spec == Init /\ [][Next]_vars

(***************************************************************************)
(* Properties of generate_link                                             *)
(***************************************************************************)
CountChar(s, c) == Cardinality({k \in 1..Len(s) : s[k] = c})

Returned == lpc = "returned"

\* C1: for platform 'sephora', generate_link returns product_url, then one
\* separator, then 'affiliate=' and the sephora id; the separator is '&'
\* when product_url has a '?' anywhere and '?' otherwise.
C1_SephoraLink ==
    (Returned /\ platform = "sephora") =>
        LET n == Len(product_url)
            sep == IF CountChar(product_url, "?") > 0 THEN "&" ELSE "?"
        IN  /\ Len(link) = n + 1 + Len(AffiliateParam) + Len(SephoraId)
            /\ SubSeq(link, 1, n) = product_url
            /\ link[n + 1] = sep
            /\ SubSeq(link, n + 2, Len(link)) = AffiliateParam \o SephoraId

C1_Witness ==
    /\ Returned
    /\ platform = "sephora"
    /\ product_url = SephoraQueryUrl
    /\ link = SephoraQueryUrl \o <<"&">> \o AffiliateParam \o SephoraId

\* C2: for platform 'amazon', generate_link returns product_url followed
\* by '?tag=' and the amazon id whatever product_url is; when product_url
\* already has a '?', the result has at least two.
C2_AmazonLink ==
    (Returned /\ platform = "amazon") =>
        /\ link = product_url \o <<"?", "t", "a", "g", "=">> \o AmazonId
        /\ CountChar(link, "?") = CountChar(product_url, "?") + 1

C2_Witness ==
    /\ Returned
    /\ platform = "amazon"
    /\ CountChar(product_url, "?") = 1
    /\ CountChar(link, "?") = 2

\* C3: for every platform other than 'sephora' and 'amazon', in the table
\* or not, generate_link returns product_url unchanged.
C3_OtherPlatformsUnchanged ==
    (Returned /\ platform \notin {"sephora", "amazon"}) => link = product_url

C3_Witness ==
    /\ Returned
    /\ platform = "namshi"
    /\ platform \in DOMAIN affiliate_ids
    /\ product_url = NamshiUrl
    /\ link = NamshiUrl

\* C9: the table keeps the three keys and ids it got at construction
\* through every sequence of generate_link calls, and each result is the
\* one the constructed table gives for the call's two arguments.
C9_TableFixed ==
    /\ DOMAIN affiliate_ids = {"sephora", "amazon", "namshi"}
    /\ affiliate_ids["sephora"] = SephoraId
    /\ affiliate_ids["amazon"] = AmazonId
    /\ affiliate_ids["namshi"] = NamshiId
    /\ Returned => link = generate_link(InitAffiliateIds, platform, product_url)

C9_Witness ==
    /\ Returned
    /\ calls = MaxCalls
    /\ platform = "unknown"
    /\ product_url = UnknownUrl
    /\ link = UnknownUrl
    /\ affiliate_ids = InitAffiliateIds

(***************************************************************************)
(* Properties of parse                                                     *)
(***************************************************************************)
IsItem(e) == e.kind = "item"

IsRequest(e) == e.kind = "request"

Items == SelectSeq(emitted, IsItem)

Requests == SelectSeq(emitted, IsRequest)

Finished == pc = "done"

\* the href of the first pagination element that has one, if any
HasHref == \E k \in 1..Len(response.next_page) : ~response.next_page[k].isNone

FirstHref ==
    LET k == CHOOSE j \in 1..Len(response.next_page) :
                 /\ ~response.next_page[j].isNone
                 /\ \A m \in 1..(j - 1) : response.next_page[m].isNone
    IN  response.next_page[k].str

\* scheme and host of an absolute URL: all that precedes its third '/'
SchemeAndHost(url) ==
    LET slashes == {k \in 1..Len(url) : url[k] = "/"}
    IN  IF Cardinality(slashes) < 3 THEN url
        ELSE LET third == CHOOSE k \in slashes :
                              Cardinality({j \in slashes : j < k}) = 2
             IN  SubSeq(url, 1, third - 1)

\* a reference that starts with one '/' and has no '.' or '..' segment
PathAbsolute(href) ==
    /\ Len(href) >= 1
    /\ href[1] = "/"
    /\ ~(Len(href) >= 2 /\ href[2] = "/")
    /\ \A k \in 1..Len(href) :
          href[k] = "." => (k > 1 /\ href[k - 1] \notin {"/", "."})

\* C4: in every emitted record, a field whose sub-element is missing from
\* the product element is absent, and every other field has the value it
\* has when that sub-element is present.
C4_MissingFieldAbsent ==
    \A k \in 1..Len(Items) : \A f \in Fields :
        response.products[k][f] = <<>> =>
            /\ Items[k].fields[f].isNone
            /\ \A g \in Fields \ {f} :
                  Items[k].fields[g] =
                      record(response.base,
                             [response.products[k] EXCEPT ![f] = FullElement[f]])[g]

\* C5: parse emits one record per matched product element, in document
\* order: the k-th record is built from the k-th element; while the loop
\* runs the records so far are those of the first elements, and a page with
\* no product element ends with no record.
C5_OneRecordPerElementInOrder ==
    /\ Len(Items) <= Len(response.products)
    /\ pc \in {"followed", "done"} => Len(Items) = Len(response.products)
    /\ \A k \in 1..Len(Items) :
          /\ IsItem(emitted[k])
          /\ \A f \in Fields \ {"url"} :
                emitted[k].fields[f] =
                    IF response.products[k][f] = <<>> THEN None
                    ELSE Some(response.products[k][f][1])

C5_Witness ==
    /\ Finished
    /\ Len(response.products) = 2
    /\ response.products[1] # response.products[2]
    /\ Len(Items) = 2
    /\ Items[1].fields # Items[2].fields

\* C6 as stated: a continuation is emitted exactly when a pagination
\* element is present on the page.
C6_FollowIffElementPresent ==
    Finished => (Requests # <<>> <=> response.next_page # <<>>)

\* C6 amended: a continuation is emitted exactly when some pagination
\* element has an href and the first such href is not empty; with no
\* pagination element there is none.
C6_FollowIffFirstHrefNonEmpty ==
    Finished =>
        /\ Requests # <<>> <=> (HasHref /\ FirstHref # EmptyStr)
        /\ response.next_page = <<>> => Requests = <<>>
        /\ \A k \in 1..Len(Requests) : Requests[k].callback = "parse"

C6_Witness ==
    /\ Finished
    /\ response.next_page = <<None, Some(Page2)>>
    /\ Len(Requests) = 1

\* C7: within one invocation at most one continuation is emitted, it
\* comes after the records of all the page's product elements and is the
\* last thing emitted; after it the invocation only returns: it emits
\* nothing more and does not move to another page.
C7_FollowLastAndOnce ==
    /\ [](/\ Len(Requests) <= 1
          /\ \A k \in 1..Len(emitted) :
                IsRequest(emitted[k]) =>
                    /\ k = Len(emitted)
                    /\ k = Len(response.products) + 1
                    /\ \A j \in 1..(k - 1) : IsItem(emitted[j])
                    /\ pc \in {"followed", "done"})
    /\ [][Requests # <<>> =>
            /\ emitted' = emitted
            /\ response' = response
            /\ pc' = "done"]_vars

C7_Witness ==
    /\ Finished
    /\ Len(response.products) = 2
    /\ Len(emitted) = 3
    /\ IsItem(emitted[1])
    /\ IsItem(emitted[2])
    /\ IsRequest(emitted[3])

\* C8: the continuation's target is the first pagination href resolved
\* against the page's base URL; for a path-absolute href it is the base's
\* scheme and host followed by the href, so '/page/2' on
\* 'https://example-beauty-site.com/products' gives
\* 'https://example-beauty-site.com/page/2'.
C8_FollowTargetResolved ==
    \A k \in 1..Len(Requests) :
        /\ HasHref
        /\ PathAbsolute(FirstHref) =>
              Requests[k].url = SchemeAndHost(response.base) \o FirstHref
        /\ (response.base = StartUrl /\ FirstHref = Page2) =>
              Requests[k].url =
                  <<"h", "t", "t", "p", "s", ":", "/", "/", "e", "x", "a", "m", "p", "l", "e", "-", "b", "e", "a", "u", "t", "y", "-", "s", "i", "t", "e", ".", "c", "o", "m", "/", "p", "a", "g", "e", "/", "2">>

C8_Witness ==
    /\ Finished
    /\ response.base = StartUrl
    /\ response.next_page = <<Some(Page2)>>
    /\ Len(Requests) = 1
    /\ Requests[1].url = SchemeAndHost(StartUrl) \o Page2

\* C10: every emitted record has a url that is a string: the page's base
\* URL when the product element has no product link (or an empty one),
\* the base's scheme and host followed by the href when the href is
\* path-absolute, and the href resolved against the base URL otherwise.
C10_UrlNeverAbsent ==
    \A k \in 1..Len(Items) :
        LET found == response.products[k]["url"]
            url == Items[k].fields["url"]
        IN  /\ ~url.isNone
            /\ found = <<>> => url.str = response.base
            /\ (found # <<>> /\ found[1] = EmptyStr) => url.str = response.base
            /\ (found # <<>> /\ PathAbsolute(found[1])) =>
                  url.str = SchemeAndHost(response.base) \o found[1]
            /\ (found # <<>> /\ found[1] # EmptyStr) =>
                  url.str = urljoin_str(response.base, found[1])

C10_Witness ==
    /\ Len(Items) >= 1
    /\ response.products[1]["url"] = <<>>
    /\ response.products[1]["name"] # <<>>
    /\ Items[1].fields["url"] = Some(response.base)

====
